---------------------------- MODULE Spec2Model ----------------------------
(***************************************************************************)
(* SD file facade of Core/Src/sd_functions.c (STM32H7, FatFs).             *)
(*                                                                         *)
(* The facade operations are modelled as functions from the volume and the *)
(* results of the FatFs calls they make to an outcome record; an action    *)
(* applies one operation to the volume.  The FatFs calls themselves are    *)
(* modelled by their documented contract, with an injected result code     *)
(* standing for a failure of the medium.                                   *)
(***************************************************************************)
EXTENDS Integers, Sequences, FiniteSets, TLC

VARIABLES
    mounted,   \* the FatFs volume is registered and usable
    files,     \* the volume: file name -> [present, data]
    dirs,      \* directories created on the volume
    faults,    \* whether the medium may fail (injected FatFs result codes)
    op,        \* observable outcome of the last facade call
    script,    \* the caller's position in a write/append/read sequence
    csvCall,   \* sd_read_csv in progress: its arguments and position
    csvSt,     \* sd_read_csv in progress: its loop state
    tree,      \* the directory tree sd_list_files walks
    lister,    \* sd_list_files: not called, running or returned
    stack,     \* sd_list_directory_recursive: the active calls, innermost last
    listing    \* sd_list_directory_recursive: the lines printed so far

ioVars == <<mounted, files, dirs, faults, op>>
csvVars == <<csvCall, csvSt>>
dirVars == <<tree, lister, stack, listing>>
vars == <<mounted, files, dirs, faults, op, script, csvCall, csvSt,
          tree, lister, stack, listing>>

(***************************** bounds **************************************)
MaxTextLen == 2      \* longest text handed to write/append
MaxFileLen == 3      \* longest file kept on the volume
MaxBufSize == 3      \* largest buffer capacity handed to read

\* UINT is an unsigned 32-bit integer.  TLC's own integers end at 2^31 - 1, so
\* the model wraps UINT arithmetic at 2^30 instead: every size of the model is
\* far below either modulus, and 0 - 1 wraps to the largest UINT in both.
UIntWidth == 30

Min(a, b) == IF a < b THEN a ELSE b
Max(a, b) == IF a > b THEN a ELSE b

Alphabet == {"a"}
SeqsUpTo(S, n) == UNION {[1..k -> S] : k \in 0..n}
Texts == SeqsUpTo(Alphabet, MaxTextLen)
FileNames == {"f", "g"}
ContentFiles == {"f"}     \* the files written, appended and read
DirNames == {"d"}
Take(s, n) == SubSeq(s, 1, Min(n, Len(s)))
Drop(s, n) == SubSeq(s, Min(n, Len(s)) + 1, Len(s))

(************************ FatFs result codes *******************************)
FR_OK == "FR_OK"
FR_DISK_ERR == "FR_DISK_ERR"
FR_NO_FILE == "FR_NO_FILE"
FR_DENIED == "FR_DENIED"
FR_EXIST == "FR_EXIST"
FR_NOT_ENABLED == "FR_NOT_ENABLED"

\* result codes a failing medium makes a FatFs call return
MediumErrors == {FR_DENIED}
Injected(f) == IF f THEN {FR_OK} \cup MediumErrors ELSE {FR_OK}

Absent == [present |-> FALSE, data |-> <<>>]
File(d) == [present |-> TRUE, data |-> d]

(************************ FatFs calls (contract) ***************************)
\* f_open: inj is the result a failing medium forces; otherwise the mode decides.
f_open(m, fs, fn, mode, inj) ==
    IF inj # FR_OK THEN [res |-> inj, files |-> fs, fptr |-> 0]
    ELSE IF ~m THEN [res |-> FR_NOT_ENABLED, files |-> fs, fptr |-> 0]
    ELSE IF mode = "FA_READ"
         THEN [res |-> IF fs[fn].present THEN FR_OK ELSE FR_NO_FILE,
               files |-> fs, fptr |-> 0]
    ELSE IF mode = "FA_CREATE_ALWAYS|FA_WRITE"
         THEN [res |-> FR_OK, files |-> [fs EXCEPT ![fn] = File(<<>>)], fptr |-> 0]
    ELSE \* FA_OPEN_ALWAYS|FA_WRITE
         [res |-> FR_OK,
          files |-> IF fs[fn].present THEN fs ELSE [fs EXCEPT ![fn] = File(<<>>)],
          fptr |-> 0]

f_size(fs, fn) == Len(fs[fn].data)

\* f_lseek on a file no longer than ofs moves the pointer to ofs
f_lseek(fs, fn, fptr, ofs, inj) ==
    IF inj # FR_OK THEN [res |-> inj, fptr |-> fptr]
    ELSE [res |-> FR_OK, fptr |-> Min(ofs, f_size(fs, fn))]

\* f_write stores the first bw bytes of text at the file pointer
f_write(fs, fn, fptr, text, inj, bw) ==
    LET old == fs[fn].data
        new == Take(old, fptr) \o Take(text, bw) \o Drop(old, fptr + bw)
    IN [res |-> inj, bw |-> bw, files |-> [fs EXCEPT ![fn] = File(new)]]

\* f_read delivers at most btr bytes from the file pointer
f_read(fs, fn, fptr, btr, inj) ==
    IF inj # FR_OK THEN [res |-> inj, bytes |-> <<>>]
    ELSE [res |-> FR_OK, bytes |-> Take(Drop(fs[fn].data, fptr), btr)]

f_close(inj) == inj

f_unlink(m, fs, fn, inj) ==
    IF inj # FR_OK THEN [res |-> inj, files |-> fs]
    ELSE IF ~m THEN [res |-> FR_NOT_ENABLED, files |-> fs]
    ELSE IF ~fs[fn].present THEN [res |-> FR_NO_FILE, files |-> fs]
    ELSE [res |-> FR_OK, files |-> [fs EXCEPT ![fn] = Absent]]

f_rename(m, fs, old, new, inj) ==
    IF inj # FR_OK THEN [res |-> inj, files |-> fs]
    ELSE IF ~m THEN [res |-> FR_NOT_ENABLED, files |-> fs]
    ELSE IF ~fs[old].present THEN [res |-> FR_NO_FILE, files |-> fs]
    ELSE IF fs[new].present THEN [res |-> FR_EXIST, files |-> fs]
    ELSE [res |-> FR_OK, files |-> [fs EXCEPT ![new] = fs[old], ![old] = Absent]]

f_mkdir(m, ds, path, inj) ==
    IF inj # FR_OK THEN [res |-> inj, dirs |-> ds]
    ELSE IF ~m THEN [res |-> FR_NOT_ENABLED, dirs |-> ds]
    ELSE IF path \in ds THEN [res |-> FR_EXIST, dirs |-> ds]
    ELSE [res |-> FR_OK, dirs |-> ds \cup {path}]

\* f_mount(&fs, SDPath, 1) registers and mounts; f_mount(NULL, ...) unregisters
f_mount(m, register, inj) ==
    IF inj # FR_OK THEN [res |-> inj, mounted |-> IF register THEN FALSE ELSE m]
    ELSE [res |-> FR_OK, mounted |-> register]

f_getfree(m, inj) ==
    IF inj # FR_OK THEN inj ELSE IF ~m THEN FR_NOT_ENABLED ELSE FR_OK

(************************* outcome of a call *******************************)
Step(call, res) == <<call, res>>

\* the caller's memory: a buffer of bufsize bytes followed by other bytes
MemTop == Max(MaxFileLen, 2 * MaxTextLen) + 2
FreshMemory == [i \in 0..MemTop |-> "?"]
NUL == "\\0"

\* the FatFs calls an operation made, in order, each with its result
Calls(o, call) == {i \in 1..Len(o.steps) : o.steps[i][1] = call}
Opened(o) == \E i \in Calls(o, "f_open") : o.steps[i][2] = FR_OK
Closes(o) == Cardinality(Calls(o, "f_close"))

Outcome(name, fn) ==
    [name |-> name, filename |-> fn, text |-> <<>>, ret |-> FR_OK,
     steps |-> <<>>, bw |-> 0,
     bufsize |-> 0, requested |-> 0, bytes_read |-> 0,
     buffer |-> FreshMemory, written |-> {}, size |-> 0,
     max_records |-> 0, record_count |-> 0]

(************************* facade operations *******************************)
\* r holds the results the medium forces on the FatFs calls of one operation,
\* one field per call, and r.bw, the number of bytes f_write accepts.
NoFault ==
    [mount |-> FR_OK, getfree |-> FR_OK, open |-> FR_OK, seek |-> FR_OK,
     write |-> FR_OK, read |-> FR_OK, close |-> FR_OK, unlink |-> FR_OK,
     rename |-> FR_OK, mkdir |-> FR_OK, bw |-> MaxTextLen]

sd_get_space_kb(m, r) ==
    LET res == f_getfree(m, r.getfree)
    IN [Outcome("sd_get_space_kb", "") EXCEPT
            !.ret = res, !.steps = <<Step("f_getfree", res)>>]

sd_mount(m, r) ==
    LET mt == f_mount(m, TRUE, r.mount)
    IN IF mt.res = FR_OK
       THEN [out |-> [Outcome("sd_mount", "") EXCEPT
                        !.ret = FR_OK,
                        !.steps = <<Step("f_mount", mt.res)>>
                                  \o sd_get_space_kb(mt.mounted, r).steps],
             mounted |-> mt.mounted]
       ELSE [out |-> [Outcome("sd_mount", "") EXCEPT
                        !.ret = mt.res, !.steps = <<Step("f_mount", mt.res)>>],
             mounted |-> mt.mounted]

sd_unmount(m, r) ==
    LET mt == f_mount(m, FALSE, r.mount)
    IN [out |-> [Outcome("sd_unmount", "") EXCEPT
                    !.ret = mt.res, !.steps = <<Step("f_mount", mt.res)>>],
        mounted |-> mt.mounted]

\* the mode sd_write_file opens with
\* (WriteModeKeeping is the faulty variant that does not truncate the file)
WriteModeKeeping == "FA_OPEN_ALWAYS|FA_WRITE"
WriteMode == "FA_CREATE_ALWAYS|FA_WRITE"

\* what write and append return once f_write has run
\* (WriteResultByCode is the faulty variant that ignores the byte count)
WriteResultByCode(res, bw, text) == IF res = FR_OK THEN FR_OK ELSE FR_DISK_ERR
WriteResult(res, bw, text) ==
    IF res = FR_OK /\ bw = Len(text) THEN FR_OK ELSE FR_DISK_ERR

sd_write_file(m, fs, filename, text, r) ==
    LET o == f_open(m, fs, filename, WriteMode, r.open)
        base == [Outcome("sd_write_file", filename) EXCEPT !.text = text]
    IN IF o.res # FR_OK
       THEN [out |-> [base EXCEPT !.ret = o.res, !.steps = <<Step("f_open", o.res)>>],
             files |-> o.files]
       ELSE LET w == f_write(o.files, filename, o.fptr, text, r.write, Min(r.bw, Len(text)))
                c == f_close(r.close)
            IN [out |-> [base EXCEPT
                           !.ret = WriteResult(w.res, w.bw, text),
                           !.steps = <<Step("f_open", o.res), Step("f_write", w.res),
                                       Step("f_close", c)>>,
                           !.bw = w.bw],
                files |-> w.files]

\* the calls of an append whose f_lseek failed: the handle is closed
\* (SeekFailedLeaking is the faulty variant that returns without f_close)
SeekFailedLeaking(ores, sres, cres) == <<Step("f_open", ores), Step("f_lseek", sres)>>
SeekFailed(ores, sres, cres) ==
    <<Step("f_open", ores), Step("f_lseek", sres), Step("f_close", cres)>>

sd_append_file(m, fs, filename, text, r) ==
    LET o == f_open(m, fs, filename, "FA_OPEN_ALWAYS|FA_WRITE", r.open)
        base == [Outcome("sd_append_file", filename) EXCEPT !.text = text]
    IN IF o.res # FR_OK
       THEN [out |-> [base EXCEPT !.ret = o.res, !.steps = <<Step("f_open", o.res)>>],
             files |-> o.files]
       ELSE LET s == f_lseek(o.files, filename, o.fptr, f_size(o.files, filename), r.seek)
            IN IF s.res # FR_OK
               THEN LET c == f_close(r.close)
                    IN [out |-> [base EXCEPT
                                   !.ret = s.res,
                                   !.steps = SeekFailed(o.res, s.res, c)],
                        files |-> o.files]
               ELSE LET w == f_write(o.files, filename, s.fptr, text, r.write,
                                     Min(r.bw, Len(text)))
                        c == f_close(r.close)
                    IN [out |-> [base EXCEPT
                                   !.ret = WriteResult(w.res, w.bw, text),
                                   !.steps = <<Step("f_open", o.res), Step("f_lseek", s.res),
                                               Step("f_write", w.res), Step("f_close", c)>>,
                           !.bw = w.bw],
                        files |-> w.files]

\* a read whose f_open failed: nothing but the result code and the count
\* (OpenFailedTerminating is the faulty variant that terminates the buffer first)
OpenFailedTerminating(base, res) ==
    [base EXCEPT !.ret = res, !.steps = <<Step("f_open", res)>>,
                 !.buffer[0] = NUL, !.written = {0}]
OpenFailed(base, res) ==
    [base EXCEPT !.ret = res, !.steps = <<Step("f_open", res)>>]

\* buffer is the caller's memory; only its first bufsize bytes are the buffer
sd_read_file(m, fs, filename, buffer, bufsize, r) ==
    LET o == f_open(m, fs, filename, "FA_READ", r.open)
        base == [Outcome("sd_read_file", filename) EXCEPT
                    !.bufsize = bufsize, !.buffer = buffer, !.bytes_read = 0,
                    !.size = f_size(fs, filename)]
    IN IF o.res # FR_OK
       THEN OpenFailed(base, o.res)
       ELSE LET btr == (bufsize - 1) % (2 ^ UIntWidth)
                rd == f_read(o.files, filename, o.fptr, btr, r.read)
                n == Len(rd.bytes)
            IN IF rd.res # FR_OK
               THEN [base EXCEPT
                       !.ret = rd.res,
                       !.steps = <<Step("f_open", o.res), Step("f_read", rd.res),
                                   Step("f_close", f_close(r.close))>>,
                       !.requested = btr]
               ELSE LET c == f_close(r.close)
                    IN [base EXCEPT
                          !.ret = c,
                          !.steps = <<Step("f_open", o.res), Step("f_read", rd.res),
                                      Step("f_close", c)>>,
                          !.requested = btr,
                          !.bytes_read = n,
                          !.buffer = [i \in 0..MemTop |->
                                        IF i < n THEN rd.bytes[i + 1]
                                        ELSE IF i = n THEN NUL ELSE buffer[i]],
                          !.written = 0..n]

sd_delete_file(m, fs, filename, r) ==
    LET u == f_unlink(m, fs, filename, r.unlink)
    IN [out |-> [Outcome("sd_delete_file", filename) EXCEPT
                    !.ret = u.res, !.steps = <<Step("f_unlink", u.res)>>],
        files |-> u.files]

sd_rename_file(m, fs, oldname, newname, r) ==
    LET n == f_rename(m, fs, oldname, newname, r.rename)
    IN [out |-> [Outcome("sd_rename_file", oldname) EXCEPT
                    !.ret = n.res, !.steps = <<Step("f_rename", n.res)>>],
        files |-> n.files]

sd_create_directory(m, ds, path, r) ==
    LET k == f_mkdir(m, ds, path, r.mkdir)
    IN [out |-> [Outcome("sd_create_directory", path) EXCEPT
                    !.ret = k.res, !.steps = <<Step("f_mkdir", k.res)>>],
        dirs |-> k.dirs]

(***************************** CSV reading *********************************)
MaxCsvLen == 5       \* longest CSV file
MaxRecords == 3      \* largest max_records handed to read_csv
LineBufSize == 128   \* char line[128]
FieldSize == 32      \* char field1[32], field2[32]

CsvAlphabet == {"a", "3", ",", "\n"}
CsvContents == SeqsUpTo(CsvAlphabet, MaxCsvLen)
NoToken == <<>>      \* the NULL that f_gets and strtok return

\* f_gets(line, len, &file): characters up to and including the next newline,
\* at most len - 1 of them; NULL at the end of the file
f_gets(data, pos, len) ==
    LET rest == Drop(data, pos)
        lim == Min(Len(rest), len - 1)
        nls == {i \in 1..lim : rest[i] = "\n"}
        n == IF nls = {} THEN lim ELSE CHOOSE i \in nls : \A j \in nls : i <= j
    IN [line |-> Take(rest, n), pos |-> pos + n]

\* strtok(s, ","): skips leading commas, returns the characters up to the next
\* comma (NULL when none is left) and the rest after that comma
RECURSIVE SkipDelims(_)
SkipDelims(s) == IF s # <<>> /\ Head(s) = "," THEN SkipDelims(Tail(s)) ELSE s

strtok(s) ==
    LET t == SkipDelims(s)
        cs == {i \in 1..Len(t) : t[i] = ","}
        n == IF cs = {} THEN Len(t) + 1 ELSE CHOOSE i \in cs : \A j \in cs : i <= j
    IN [token |-> Take(t, n - 1), rest |-> Drop(t, n)]

\* the comma-separated tokens strtok finds in a line
RECURSIVE Tokens(_)
Tokens(s) ==
    LET t == strtok(s)
    IN IF t.token = NoToken THEN <<>> ELSE <<t.token>> \o Tokens(t.rest)

\* strncpy(dst, src, sizeof dst)
strncpy(token, size) == Take(token, size)

\* atoi: leading white space skipped, then the decimal digits that follow
DigitValue == [c \in {"0", "1", "2", "3", "4", "5", "6", "7", "8", "9"} |->
                 CASE c = "0" -> 0 [] c = "1" -> 1 [] c = "2" -> 2 [] c = "3" -> 3
                   [] c = "4" -> 4 [] c = "5" -> 5 [] c = "6" -> 6 [] c = "7" -> 7
                   [] c = "8" -> 8 [] c = "9" -> 9]
WhiteSpace == {" ", "\n", "\t", "\r"}

RECURSIVE Digits(_, _)
Digits(s, acc) ==
    IF s # <<>> /\ Head(s) \in DOMAIN DigitValue
    THEN Digits(Tail(s), 10 * acc + DigitValue[Head(s)])
    ELSE acc

RECURSIVE atoi(_)
atoi(s) ==
    IF s # <<>> /\ Head(s) \in WhiteSpace THEN atoi(Tail(s)) ELSE Digits(s, 0)

\* state of one run of sd_read_csv: the file position, the line buffer, the
\* caller's record array and count, the indices of the array written so far
CsvStart(records) ==
    [pos |-> 0, line |-> <<>>, record_count |-> 0, records |-> records,
     written |-> {}, running |-> TRUE]

\* the second conjunct of the loop condition
\* (RoomForUpTo is the faulty variant that is off by one)
RoomForUpTo(record_count, max_records) == record_count <= max_records
RoomFor(record_count, max_records) == record_count < max_records

\* a line with one token only: field1 is copied, the count stays
\* (OneTokenCounted is the faulty variant that counts the line as a record)
OneTokenCounted(s1) == [s1 EXCEPT !.record_count = @ + 1]
OneToken(s1) == s1

\* the value stored for a line with two tokens or more
\* (ThirdFieldOrOld is the faulty variant that stores nothing without a third token)
ThirdFieldOrOld(old, token) == IF token # NoToken THEN atoi(token) ELSE old
ThirdField(old, token) == IF token # NoToken THEN atoi(token) ELSE 0

\* one evaluation of the loop condition and, when it holds, of the loop body
csv_iter(data, max_records, st) ==
    LET g == f_gets(data, st.pos, LineBufSize)
        rc == st.record_count
    IN IF g.line = NoToken
       THEN [st EXCEPT !.running = FALSE]
       ELSE IF ~RoomFor(rc, max_records)
       THEN [st EXCEPT !.running = FALSE, !.pos = g.pos, !.line = g.line]
       ELSE LET t1 == strtok(g.line)
                t2 == strtok(t1.rest)
                t3 == strtok(t2.rest)
                s0 == [st EXCEPT !.pos = g.pos, !.line = g.line]
                s1 == [s0 EXCEPT !.records[rc].field1 = strncpy(t1.token, FieldSize),
                                 !.written = @ \cup {rc}]
                s2 == [s1 EXCEPT !.records[rc].field2 = strncpy(t2.token, FieldSize)]
            IN IF t1.token = NoToken THEN s0
               ELSE IF t2.token = NoToken THEN OneToken(s1)
               ELSE [s2 EXCEPT !.records[rc].value = ThirdField(@, t3.token),
                               !.record_count = rc + 1]

RECURSIVE csv_loop(_, _, _)
csv_loop(data, max_records, st) ==
    IF st.running THEN csv_loop(data, max_records, csv_iter(data, max_records, st))
    ELSE st

\* the record array the caller hands in: MaxRecords + 1 slots of its memory
CallerRecords(v) ==
    [i \in 0..MaxRecords |-> [field1 |-> <<"?">>, field2 |-> <<"?">>, value |-> v]]

sd_read_csv(m, fs, filename, records, max_records, r) ==
    LET o == f_open(m, fs, filename, "FA_READ", r.open)
        base == [Outcome("sd_read_csv", filename) EXCEPT !.max_records = max_records]
    IN IF o.res # FR_OK
       THEN [out |-> [base EXCEPT !.ret = o.res, !.steps = <<Step("f_open", o.res)>>],
             csv |-> CsvStart(records)]
       ELSE LET st == csv_loop(fs[filename].data, max_records, CsvStart(records))
                c == f_close(r.close)
            IN [out |-> [base EXCEPT
                           !.ret = FR_OK,
                           !.steps = <<Step("f_open", o.res), Step("f_close", c)>>,
                           !.record_count = st.record_count],
                csv |-> st]

(********************* the facade on a volume ******************************)
NoScript == [pc |-> "none", t1 |-> <<>>, t2 |-> <<>>]
NoCsvCall == [pc |-> "none", data |-> <<>>, max_records |-> 0, initial |-> 0,
              steps |-> <<>>, ret |-> FR_OK]
NoTree == [root |-> <<>>, dots |-> FALSE]
NoListing == tree = NoTree /\ lister = "none" /\ stack = <<>> /\ listing = <<>>

IoIdle ==
    /\ script = NoScript
    /\ csvCall = NoCsvCall /\ csvSt = CsvStart(CallerRecords(0))
    /\ NoListing

IoInit ==
    /\ mounted = FALSE
    /\ files = [fn \in FileNames |-> Absent]
    /\ dirs = {}
    /\ faults \in BOOLEAN
    /\ op = Outcome("none", "")
    /\ IoIdle

Others == <<script, csvCall, csvSt, tree, lister, stack, listing>>

\* the results the medium may force on a call made after the calls in `before`
After(before) == IF \A b \in before : b = FR_OK THEN Injected(faults) ELSE {FR_OK}

Mount ==
    \E a \in Injected(faults) : \E b \in After({a}) :
        LET o == sd_mount(mounted, [NoFault EXCEPT !.mount = a, !.getfree = b])
        IN /\ op' = o.out
           /\ mounted' = o.mounted
           /\ UNCHANGED <<files, dirs, faults, Others>>

Unmount ==
    \E a \in Injected(faults) :
        LET o == sd_unmount(mounted, [NoFault EXCEPT !.mount = a])
        IN /\ op' = o.out
           /\ mounted' = o.mounted
           /\ UNCHANGED <<files, dirs, faults, Others>>

GetSpace ==
    \E a \in Injected(faults) :
        /\ op' = sd_get_space_kb(mounted, [NoFault EXCEPT !.getfree = a])
        /\ UNCHANGED <<mounted, files, dirs, faults, Others>>

\* a healthy medium accepts every byte; a failing one any number of them
Accepted(text) == IF faults THEN 0..Len(text) ELSE {Len(text)}

WriteFile ==
    \E fn \in ContentFiles, text \in Texts :
    \E a \in Injected(faults) : \E b \in After({a}) : \E c \in After({a}) :
    \E bw \in Accepted(text) :
        LET o == sd_write_file(mounted, files, fn, text,
                     [NoFault EXCEPT !.open = a, !.write = b, !.close = c, !.bw = bw])
        IN /\ op' = o.out
           /\ files' = o.files
           /\ UNCHANGED <<mounted, dirs, faults, Others>>

AppendFile ==
    \E fn \in ContentFiles, text \in Texts :
    \E a \in Injected(faults) : \E b \in After({a}) : \E c \in After({a, b}) :
    \E d \in After({a}) : \E bw \in Accepted(text) :
        LET o == sd_append_file(mounted, files, fn, text,
                     [NoFault EXCEPT !.open = a, !.seek = b, !.write = c,
                                     !.close = d, !.bw = bw])
        IN /\ Len(files[fn].data) + Len(text) <= MaxFileLen
           /\ op' = o.out
           /\ files' = o.files
           /\ UNCHANGED <<mounted, dirs, faults, Others>>

ReadFile ==
    \E fn \in ContentFiles, bufsize \in 0..MaxBufSize :
    \E a \in Injected(faults) : \E b \in After({a}) : \E c \in After({a}) :
        /\ op' = sd_read_file(mounted, files, fn, FreshMemory, bufsize,
                     [NoFault EXCEPT !.open = a, !.read = b, !.close = c])
        /\ UNCHANGED <<mounted, files, dirs, faults, Others>>

ReadCsv ==
    \E fn \in ContentFiles, max_records \in -1..MaxRecords :
    \E a \in Injected(faults) : \E c \in After({a}) :
        /\ op' = sd_read_csv(mounted, files, fn, CallerRecords(0), max_records,
                     [NoFault EXCEPT !.open = a, !.close = c]).out
        /\ UNCHANGED <<mounted, files, dirs, faults, Others>>

DeleteFile ==
    \E fn \in FileNames : \E a \in Injected(faults) :
        LET o == sd_delete_file(mounted, files, fn, [NoFault EXCEPT !.unlink = a])
        IN /\ op' = o.out
           /\ files' = o.files
           /\ UNCHANGED <<mounted, dirs, faults, Others>>

RenameFile ==
    \E old \in FileNames, new \in FileNames : \E a \in Injected(faults) :
        LET o == sd_rename_file(mounted, files, old, new, [NoFault EXCEPT !.rename = a])
        IN /\ old # new
           /\ op' = o.out
           /\ files' = o.files
           /\ UNCHANGED <<mounted, dirs, faults, Others>>

CreateDirectory ==
    \E path \in DirNames : \E a \in Injected(faults) :
        LET o == sd_create_directory(mounted, dirs, path, [NoFault EXCEPT !.mkdir = a])
        IN /\ op' = o.out
           /\ dirs' = o.dirs
           /\ UNCHANGED <<mounted, files, faults, Others>>

Next ==
    \/ Mount \/ Unmount \/ GetSpace
    \/ WriteFile \/ AppendFile \/ ReadFile \/ ReadCsv
    \/ DeleteFile \/ RenameFile \/ CreateDirectory

Spec == IoInit /\ [][Next]_vars

(**************************** claims: Spec *********************************)
HandleOps == {"sd_write_file", "sd_append_file", "sd_read_file", "sd_read_csv"}
WriteOps == {"sd_write_file", "sd_append_file"}
Failed(o, call) == \E i \in Calls(o, call) : o.steps[i][2] # FR_OK
Succeeded(o, call) == \E i \in Calls(o, call) : o.steps[i][2] = FR_OK

\* C1: in write, append, read and read_csv, whatever the open, seek, read and
\* write calls return, a handle that f_open delivered is closed exactly once
\* before the operation returns, and f_close is never called when f_open failed.
C1_ClosedExactlyOnce ==
    op.name \in HandleOps =>
        /\ Cardinality(Calls(op, "f_open")) = 1
        /\ Closes(op) = IF Opened(op) THEN 1 ELSE 0
        /\ Opened(op) => op.steps[Len(op.steps)][1] = "f_close"

\* C1 witness: an append whose seek failed has closed its handle once.
C1_Witness ==
    /\ op.name = "sd_append_file" /\ Failed(op, "f_lseek") /\ Closes(op) = 1

\* C2 (as claimed): when f_write itself fails with code E, write and append
\* return E, the failing step's code unmodified.
C2_WriteFailureCodeReturned ==
    op.name \in WriteOps =>
        \A i \in Calls(op, "f_write") :
            op.steps[i][2] # FR_OK => op.ret = op.steps[i][2]

\* C3: write and append return success only if f_write reported as many bytes
\* written as the text is long; a short count is a failure even when f_open and
\* f_write both reported success.
C3_SuccessMeansAllBytes ==
    op.name \in WriteOps =>
        /\ op.ret = FR_OK => (Succeeded(op, "f_write") /\ op.bw = Len(op.text))
        /\ (Opened(op) /\ op.bw < Len(op.text)) => op.ret # FR_OK

\* C3 witness: f_open and f_write succeeded, fewer bytes than asked were written,
\* and the write is reported failed.
C3_Witness ==
    /\ op.name = "sd_write_file" /\ Opened(op) /\ Succeeded(op, "f_write")
    /\ op.bw < Len(op.text) /\ op.ret = FR_DISK_ERR

\* C5 (as claimed): for every capacity C, 0 and 1 included, smaller than the
\* file's length, a successful read returns exactly C - 1 bytes, asks f_read for
\* at most C - 1 bytes, and writes no byte at an index >= C.
C5_ReadStaysInBuffer ==
    (op.name = "sd_read_file" /\ op.ret = FR_OK /\ op.bufsize < op.size) =>
        /\ op.bytes_read = op.bufsize - 1
        /\ op.requested <= op.bufsize - 1
        /\ \A i \in op.written : i < op.bufsize

\* C6: on a mounted volume whose medium does not fail, read and delete of a file
\* that does not exist return FR_NO_FILE and leave the volume as it was; read
\* reports 0 bytes read and writes no byte of the caller's buffer.
C6_MissingFile ==
    [][(/\ ~faults /\ mounted
        /\ op'.name \in {"sd_read_file", "sd_delete_file"}
        /\ ~files[op'.filename].present)
       => /\ op'.ret = FR_NO_FILE
          /\ files' = files
          /\ op'.name = "sd_read_file" =>
                (op'.bytes_read = 0 /\ op'.written = {} /\ op'.buffer = FreshMemory)]_vars

\* C6 witness: a read of a missing file on a healthy mounted volume has returned.
C6_Witness ==
    /\ ~faults /\ mounted /\ op.name = "sd_read_file"
    /\ ~files[op.filename].present /\ op.ret = FR_NO_FILE

(***************** write, then append, then read back **********************)
RtAlphabet == {"a", "b"}
RtTexts == SeqsUpTo(RtAlphabet, MaxTextLen)
RtFile == "f"

\* a mounted volume with a healthy medium; the file holds anything or is absent
RtInit ==
    /\ mounted = TRUE
    /\ \E prior \in {Absent} \cup {File(d) : d \in SeqsUpTo(RtAlphabet, MaxFileLen)} :
           files = [fn \in FileNames |-> IF fn = RtFile THEN prior ELSE Absent]
    /\ dirs = {}
    /\ faults = FALSE
    /\ op = Outcome("none", "")
    /\ \E t1 \in RtTexts, t2 \in RtTexts : script = [pc |-> "start", t1 |-> t1, t2 |-> t2]
    /\ csvCall = NoCsvCall /\ csvSt = CsvStart(CallerRecords(0))
    /\ NoListing

RtRest == <<mounted, dirs, faults, csvCall, csvSt, tree, lister, stack, listing>>

RtWrite ==
    /\ script.pc = "start"
    /\ LET o == sd_write_file(mounted, files, RtFile, script.t1, NoFault)
       IN op' = o.out /\ files' = o.files
    /\ script' = [script EXCEPT !.pc = "written"]
    /\ UNCHANGED RtRest

RtAppend ==
    /\ script.pc = "written"
    /\ LET o == sd_append_file(mounted, files, RtFile, script.t2, NoFault)
       IN op' = o.out /\ files' = o.files
    /\ script' = [script EXCEPT !.pc = "appended"]
    /\ UNCHANGED RtRest

\* the buffer is larger than the two texts together
RtRead ==
    /\ script.pc = "appended"
    /\ \E bufsize \in (Len(script.t1) + Len(script.t2) + 1)..(MemTop + 1) :
           op' = sd_read_file(mounted, files, RtFile, FreshMemory, bufsize, NoFault)
    /\ script' = [script EXCEPT !.pc = "read"]
    /\ UNCHANGED <<files, RtRest>>

RtNext == RtWrite \/ RtAppend \/ RtRead

SpecRoundTrip == RtInit /\ [][RtNext]_vars

\* the bytes of the caller's buffer before the terminator
BufferText(o) == [i \in 1..o.bytes_read |-> o.buffer[i - 1]]

\* C4: on a mounted volume with a healthy medium, whatever the file held before,
\* write(f, T1), append(f, T2), read(f) into a buffer larger than the two texts
\* yields T1 followed by T2, terminated, and bytes_read = len(T1) + len(T2).
C4_RoundTrip ==
    script.pc = "read" =>
        /\ op.ret = FR_OK
        /\ op.bytes_read = Len(script.t1) + Len(script.t2)
        /\ BufferText(op) = script.t1 \o script.t2
        /\ op.buffer[op.bytes_read] = NUL

\* C4 witness: the read has returned for two different non-empty texts written
\* over a file that held something else.
C4_Witness ==
    /\ script.pc = "read" /\ op.name = "sd_read_file"
    /\ script.t1 = <<"a", "b">> /\ script.t2 = <<"b">>
    /\ op.bytes_read = Len(script.t1) + Len(script.t2)

(************************ sd_read_csv, line by line ************************)
\* the CSV input of the specification's example: a,b,3 / a,b / a
ExampleCsv == <<"a", ",", "b", ",", "3", "\n", "a", ",", "b", "\n", "a", "\n">>
\* what the caller's record array may hold in its value fields beforehand
CallerValues == {0, 7}

CsvInit ==
    /\ mounted = TRUE /\ dirs = {} /\ faults = FALSE
    /\ files = [fn \in FileNames |-> Absent]
    /\ op = Outcome("none", "")
    /\ script = NoScript
    /\ \E data \in CsvContents \cup {ExampleCsv}, max_records \in -1..MaxRecords,
          v \in CallerValues :
           /\ csvCall = [pc |-> "call", data |-> data, max_records |-> max_records,
                         initial |-> v, steps |-> <<>>, ret |-> FR_OK]
           /\ csvSt = CsvStart(CallerRecords(v))
    /\ NoListing

CsvRest == <<mounted, files, dirs, faults, op, script, tree, lister, stack, listing>>

\* lines 186-193: the count is cleared and the file opened; the file may be missing
CsvOpen ==
    /\ csvCall.pc = "call"
    /\ \E res \in {FR_OK, FR_NO_FILE} :
           csvCall' = [csvCall EXCEPT !.pc = IF res = FR_OK THEN "loop" ELSE "done",
                                      !.steps = <<Step("f_open", res)>>,
                                      !.ret = res]
    /\ UNCHANGED <<csvSt, CsvRest>>

\* line 197-221: the loop condition and, when it holds, the body
CsvIter ==
    /\ csvCall.pc = "loop" /\ csvSt.running
    /\ csvSt' = csv_iter(csvCall.data, csvCall.max_records, csvSt)
    /\ UNCHANGED <<csvCall, CsvRest>>

\* lines 223-233: the file is closed and FR_OK returned
CsvClose ==
    /\ csvCall.pc = "loop" /\ ~csvSt.running
    /\ csvCall' = [csvCall EXCEPT !.pc = "done",
                                  !.steps = @ \o <<Step("f_close", f_close(FR_OK))>>,
                                  !.ret = FR_OK]
    /\ UNCHANGED <<csvSt, CsvRest>>

CsvNext == CsvOpen \/ CsvIter \/ CsvClose

SpecCsv == CsvInit /\ [][CsvNext]_vars

\* the lines f_gets delivers for a file, in order
RECURSIVE Lines(_, _)
Lines(data, pos) ==
    LET g == f_gets(data, pos, LineBufSize)
    IN IF g.line = NoToken THEN <<>> ELSE <<g.line>> \o Lines(data, g.pos)

\* how many lines have at least k comma-separated tokens
LinesWith(data, k) ==
    Cardinality({i \in 1..Len(Lines(data, 0)) : Len(Tokens(Lines(data, 0)[i])) >= k})

Returned == csvCall.pc = "done" /\ csvCall.ret = FR_OK /\ Len(csvCall.steps) = 2

\* C7: whatever the file holds and whatever max_records is (0 and negative
\* included), read_csv writes no record at an index < 0 or >= max_records, and
\* at every point of the loop and on return 0 <= record_count <= max(max_records, 0).
C7_RecordsBounded ==
    /\ \A i \in csvSt.written : 0 <= i /\ i < csvCall.max_records
    /\ 0 <= csvSt.record_count
    /\ csvSt.record_count <= Max(csvCall.max_records, 0)

\* C7 witness: the loop stopped on a full array with a line read but not stored.
C7_Witness ==
    /\ csvCall.pc = "done" /\ csvCall.max_records > 0
    /\ csvSt.record_count = csvCall.max_records
    /\ csvSt.written = 0..(csvCall.max_records - 1)
    /\ csvSt.pos < Len(csvCall.data)

\* C8 (as claimed): with max_records at least the number of lines, record_count
\* is the number of lines that produced at least one token.
C8_CountsLinesWithAToken ==
    (Returned /\ csvCall.max_records >= Len(Lines(csvCall.data, 0))) =>
        csvSt.record_count = LinesWith(csvCall.data, 1)

\* C8 (amended): with max_records at least the number of lines, record_count is
\* the number of lines that produced at least two tokens; a line with a single
\* token is not counted.
C8_CountsLinesWithTwoTokens ==
    (Returned /\ csvCall.max_records >= Len(Lines(csvCall.data, 0))) =>
        csvSt.record_count = LinesWith(csvCall.data, 2)

\* C8 witness: the example a,b,3 / a,b / a has been read with room for 3 records
\* and 2 are counted.
C8_Witness ==
    /\ Returned /\ csvCall.data = ExampleCsv /\ csvCall.max_records = 3
    /\ LinesWith(csvCall.data, 1) = 3
    /\ csvSt.record_count = 2

\* a step of the loop that ran the body on the line now in the line buffer
BodyRan == csvCall.pc = "loop" /\ csvSt'.running /\ csvSt'.pos # csvSt.pos

\* C9 (as claimed): for a line with exactly one or two tokens the record's value
\* field keeps what the caller's array held.
C9_ValueKeptWithoutThirdToken ==
    [][BodyRan =>
        LET toks == Tokens(csvSt'.line)
            rc == csvSt.record_count
        IN Len(toks) \in {1, 2} =>
              csvSt'.records[rc].value = csvSt.records[rc].value]_vars

\* C9 (amended): for a line with exactly two tokens field1 and field2 are
\* assigned from the tokens, value is set to 0 and the record is counted; for a
\* line with exactly one token field1 is assigned, field2 and value keep what the
\* slot held, and the record is not counted.  No other slot is written.
C9_ShortLines ==
    [][BodyRan =>
        LET toks == Tokens(csvSt'.line)
            rc == csvSt.record_count
            old == csvSt.records[rc]
            new == csvSt'.records[rc]
        IN /\ Len(toks) = 1 =>
                /\ new = [old EXCEPT !.field1 = strncpy(toks[1], FieldSize)]
                /\ csvSt'.record_count = rc
           /\ Len(toks) = 2 =>
                /\ new = [field1 |-> strncpy(toks[1], FieldSize),
                          field2 |-> strncpy(toks[2], FieldSize), value |-> 0]
                /\ csvSt'.record_count = rc + 1
           /\ \A i \in DOMAIN csvSt.records :
                i # rc => csvSt'.records[i] = csvSt.records[i]]_vars

\* C9 witness: a two-token line was stored over a slot whose value was 7, and the
\* slot's value is now 0.
C9_Witness ==
    /\ csvCall.pc = "loop" /\ csvCall.initial = 7
    /\ Len(Tokens(csvSt.line)) = 2
    /\ csvSt.record_count = 1
    /\ csvSt.records[0].value = 0 /\ csvSt.records[0].field2 # <<"?">>

(********************** recursive directory listing ************************)
MaxTreeDepth == 3    \* directory levels below the root
MaxDirWidth == 2     \* entries of a directory
StackLimit == 5      \* nested calls the call stack holds
PathBufSize == 128   \* char newpath[128]
RootPathLen == 3     \* SDPath holds a drive path of 3 characters

\* a name is one character repeated n times, so that a name cut short is a name
Name(c, n) == [c |-> c, n |-> n]
Dot == Name(".", 1)
DotDot == Name(".", 2)
FileEntry(name) == [name |-> name, dir |-> FALSE, sub |-> <<>>]
DirEntry(name, sub) == [name |-> name, dir |-> TRUE, sub |-> sub]

\* lengths of the directory names: with 60 and 62, a path of two directories
\* is 125, 127 or 129 characters long
DirNameLens == {60, 62}
FileNameLens == {1}

DistinctNames(es) == \A i, j \in 1..Len(es) : i # j => es[i].name # es[j].name

RECURSIVE TreesOfDepth(_)
TreesOfDepth(d) ==
    IF d = 0 THEN {<<>>}
    ELSE LET entries == {FileEntry(Name("x", n)) : n \in FileNameLens}
                        \cup {DirEntry(Name("x", n), sub) :
                                n \in DirNameLens, sub \in TreesOfDepth(d - 1)}
         IN {es \in SeqsUpTo(entries, IF d = MaxTreeDepth THEN 1 ELSE MaxDirWidth) :
                DistinctNames(es)}

\* a path is the sequence of names after the drive path, each after a "/"
RECURSIVE PathLen(_)
PathLen(path) ==
    IF path = <<>> THEN RootPathLen ELSE PathLen(Tail(path)) + 1 + Head(path).n

\* snprintf(newpath, sizeof(newpath), "%s/%s", path, name): what fits is kept
snprintf(path, name) ==
    LET room == (PathBufSize - 1) - PathLen(path)
    IN IF room >= 1 + name.n THEN Append(path, name)
       ELSE IF room >= 1 THEN Append(path, Name(name.c, room - 1))
       ELSE path

\* FatFs's walk along a path: empty segments are skipped, every other segment
\* must name a directory
RECURSIVE Resolve(_, _)
Resolve(entries, path) ==
    IF path = <<>> THEN [found |-> TRUE, entries |-> entries]
    ELSE IF Head(path).n = 0 THEN Resolve(entries, Tail(path))
    ELSE LET hit == {i \in 1..Len(entries) :
                        entries[i].name = Head(path) /\ entries[i].dir}
         IN IF hit = {} THEN [found |-> FALSE, entries |-> <<>>]
            ELSE Resolve(entries[CHOOSE i \in hit : TRUE].sub, Tail(path))

\* f_opendir and the entries f_readdir then yields, in order; a directory other
\* than the root may yield its "." and ".." entries first
f_opendir(t, path) ==
    LET r == Resolve(t.root, path)
        inRoot == \A k \in 1..Len(path) : path[k].n = 0
    IN [res |-> IF r.found THEN FR_OK ELSE "FR_NO_PATH",
        entries |-> IF t.dots /\ ~inRoot /\ r.found
                    THEN <<DirEntry(Dot, <<>>), DirEntry(DotDot, <<>>)>> \o r.entries
                    ELSE r.entries]

Line(kind, name, depth) == [kind |-> kind, name |-> name, depth |-> depth]

DirInit ==
    /\ mounted = TRUE /\ dirs = {} /\ faults = FALSE
    /\ files = [fn \in FileNames |-> Absent]
    /\ op = Outcome("none", "")
    /\ script = NoScript
    /\ csvCall = NoCsvCall /\ csvSt = CsvStart(CallerRecords(0))
    /\ \E root \in TreesOfDepth(MaxTreeDepth), dots \in BOOLEAN :
           tree = [root |-> root, dots |-> dots]
    /\ lister = "none" /\ stack = <<>> /\ listing = <<>>

DirRest == <<mounted, files, dirs, faults, op, script, csvCall, csvSt, tree>>

\* a call of sd_list_directory_recursive(path, depth) up to its loop: the new
\* call stack and output
Call(stk, out, path, depth) ==
    LET d == f_opendir(tree, path)
    IN IF d.res # FR_OK
       THEN [stack |-> stk, listing |-> Append(out, Line("err", <<>>, depth))]
       ELSE [stack |-> Append(stk, [path |-> path, depth |-> depth,
                                    entries |-> d.entries, next |-> 1]),
             listing |-> out]

\* sd_list_files: the listing starts at the drive path with depth 0
ListFiles ==
    /\ lister = "none"
    /\ LET c == Call(<<>>, <<>>, <<>>, 0)
       IN stack' = c.stack /\ listing' = c.listing
    /\ lister' = "running"
    /\ UNCHANGED DirRest

\* lines 295-313: f_readdir yields an entry, which is printed and, if it is a
\* directory other than "." and "..", listed by a nested call
ReadEntry ==
    /\ lister = "running" /\ stack # <<>>
    /\ LET top == stack[Len(stack)]
           rest == SubSeq(stack, 1, Len(stack) - 1)
       IN /\ top.next <= Len(top.entries)
          /\ LET e == top.entries[top.next]
                 stk == Append(rest, [top EXCEPT !.next = @ + 1])
             IN IF e.dir
                THEN IF e.name # Dot /\ e.name # DotDot
                     THEN /\ Len(stack) < StackLimit
                          /\ LET c == Call(stk,
                                           Append(listing, Line("dir", e.name, top.depth)),
                                           snprintf(top.path, e.name), top.depth + 1)
                             IN stack' = c.stack /\ listing' = c.listing
                     ELSE stack' = stk /\ listing' = listing
                ELSE /\ stack' = stk
                     /\ listing' = Append(listing, Line("file", e.name, top.depth))
    /\ UNCHANGED <<lister, DirRest>>

\* lines 296 and 315: no entry is left, the directory is closed, the call returns
Return ==
    /\ lister = "running" /\ stack # <<>>
    /\ stack[Len(stack)].next > Len(stack[Len(stack)].entries)
    /\ stack' = SubSeq(stack, 1, Len(stack) - 1)
    /\ UNCHANGED <<lister, listing, DirRest>>

\* sd_list_files returns
Listed ==
    /\ lister = "running" /\ stack = <<>>
    /\ lister' = "done"
    /\ UNCHANGED <<stack, listing, DirRest>>

DirNext == ListFiles \/ ReadEntry \/ Return \/ Listed

SpecDir == DirInit /\ [][DirNext]_vars

\* the entries of a tree in depth-first order of enumeration, without "." and ".."
RECURSIVE Preorder(_, _)
Preorder(entries, depth) ==
    IF entries = <<>> THEN <<>>
    ELSE LET e == Head(entries)
         IN (IF e.dir
             THEN <<Line("dir", e.name, depth)>> \o Preorder(e.sub, depth + 1)
             ELSE <<Line("file", e.name, depth)>>)
            \o Preorder(Tail(entries), depth)

\* C10 (as claimed): for every finite tree the listing started at the root
\* prints every entry other than "." and ".." exactly once, in the depth-first
\* order of the enumeration, also when a joined path exceeds the path buffer.
\* (The lines reporting a directory that could not be opened are left out.)
Entered(l) == l.kind # "err"
C10_ListsEveryEntryOnce ==
    lister = "done" => SelectSeq(listing, Entered) = Preorder(tree.root, 0)

=============================================================================
